---- MODULE Spec2Model ----
(***************************************************************************)
(* Model of the operator layer of the safe_numerics library:               *)
(*   include/safe_base_operations.hpp  (validation, cross-type             *)
(*       construction and assignment, cast, policy composition, binary     *)
(*       operators)                                                        *)
(*   include/checked_result.hpp        (the fallible result carrier)       *)
(*                                                                         *)
(* Native integers are modelled at a reduced width: "int" and "unsigned"   *)
(* are the two native types of IntBits bits (two's complement).  Both have *)
(* the rank of int, so no integer promotion to a wider type takes place.   *)
(* Template parameters (operand types, policies) are drawn by the initial  *)
(* predicates; run-time operand values are drawn by the actions.           *)
(***************************************************************************)
EXTENDS Integers, Sequences, FiniteSets, TLC

\* width in bits of the native types int and unsigned
IntBits == 3
\* largest Max - Min of a bounded operand type that is not the full range
MaxSpan == 1
\* nested entries of an operator after which the model stops following it
MaxDepth == 3

VARIABLES
    T,            \* template parameter T: left operand / source type
    U,            \* template parameter U: right operand type
    This,         \* safe_base<Stored, Min, Max, P, E>: the destination type
    R,            \* base type of the result type the promotion policy selects
    constructed,  \* whether the destination object exists
    m_t,          \* safe_base::m_t of the destination object
    call,         \* what the last operator / member call did
    cp,           \* the last instantiations of common_policies
    promotion     \* the bitwise result selectors of the promotion policy

vars == <<T, U, This, R, constructed, m_t, call, cp, promotion>>

-----------------------------------------------------------------------------
(* Native integer types *)

RECURSIVE Pow2(_)
Pow2(n) == IF n = 0 THEN 1 ELSE 2 * Pow2(n - 1)

BaseTypes == {"int", "unsigned"}

is_signed(b) == b = "int"

\* std::numeric_limits<b>::min() / max() of a native type
lowest(b) == IF is_signed(b) THEN -Pow2(IntBits - 1) ELSE 0
highest(b) == IF is_signed(b) THEN Pow2(IntBits - 1) - 1 ELSE Pow2(IntBits) - 1

Values(b) == lowest(b)..highest(b)

\* static_cast<b>(x) of an integer value: reduction modulo 2^IntBits into b
\* (the conversion to a signed type that cannot hold x is modular on every
\* two's complement implementation)
static_cast(b, x) ==
    LET m == x % Pow2(IntBits)
    IN  IF is_signed(b) /\ m > highest(b) THEN m - Pow2(IntBits) ELSE m

-----------------------------------------------------------------------------
(* Types seen by the operators: a bounded type safe_base<Stored, Min, Max,  *)
(* P, E> or a native integer (is_safe false, policies void).                *)

PromotionPolicies == {"void", "native", "automatic"}
ExceptionPolicies == {"void", "throw_exception", "ignore_exception"}

safe_base(b, lo, hi, p, e) ==
    [base |-> b, Min |-> lo, Max |-> hi, P |-> p, E |-> e, safe |-> TRUE]

native(b) ==
    [base |-> b, Min |-> lowest(b), Max |-> highest(b),
     P |-> "void", E |-> "void", safe |-> FALSE]

is_safe(X) == X.safe
base_type(X) == X.base
get_promotion_policy(X) == X.P
get_exception_policy(X) == X.E

\* the static ranges the model draws bounded types from
Ranges(b) ==
    {<<lo, hi>> \in Values(b) \X Values(b) :
        /\ lo <= hi
        /\ \/ hi - lo <= MaxSpan
           \/ (lo = lowest(b) /\ hi = highest(b))}

SafeTypes(ps, es) ==
    UNION {{safe_base(b, r[1], r[2], p, e) : r \in Ranges(b), p \in ps, e \in es} :
           b \in BaseTypes}

NativeTypes == {native(b) : b \in BaseTypes}

\* placeholder for a template parameter a specification does not use
NoType == native("int")

-----------------------------------------------------------------------------
(* interval<T> and the parts of interval.hpp / safe_compare.hpp used here *)

\* interval<base_type>{ base_value(numeric_limits<X>::min()), ...max() }
interval(X) == [l |-> X.Min, u |-> X.Max]

\* safe_compare::less_than / greater_than / equal: the mathematical ordering
less_than(a, b) == a < b
greater_than(a, b) == a > b

\* interval::includes
includes(i, other) == i.l <= other.l /\ other.u <= i.u

\* tribool operator<(interval, interval), operator>(interval, interval)
interval_less(i1, i2) ==
    IF less_than(i1.u, i2.l) THEN "true"
    ELSE IF greater_than(i1.l, i2.u) THEN "false"
    ELSE "indeterminate"

interval_greater(i1, i2) ==
    IF greater_than(i1.l, i2.u) THEN "true"
    ELSE IF less_than(i1.u, i2.l) THEN "false"
    ELSE "indeterminate"

indeterminate(r) == r = "indeterminate"

-----------------------------------------------------------------------------
(* The record of a call *)

NoCall ==
    [op       |-> "none",     \* the operator or member called
     t        |-> 0,          \* base_value of the left operand / the source
     u        |-> 0,          \* base_value of the right operand
     path     |-> "none",     \* "fast", "checked", "static" or "none"
     fault    |-> "success",  \* m_e of the checked_result of the checked path
     hooks    |-> <<>>,       \* exception policy hooks invoked, in order
     outcome  |-> "none",     \* "returned", "thrown", "aborted", "ill_formed"
     value    |-> 0,          \* base value of the returned bounded value
     truth    |-> FALSE,      \* the returned bool of a comparison
     value_read_on_fault  |-> FALSE,  \* operator R() called while exception()
     msg_read_on_success  |-> FALSE,  \* operator const char*() while !exception()
     native_ub |-> "none",    \* undefined native operation executed, if any
     old_m_t  |-> 0,          \* m_t of the destination before the call
     depth    |-> 0,          \* nested entries of the operator on these operands
     result_type |-> NoType]  \* result_type of a bitwise operator

\* no promotion policy selectors in use
NoPromotion == [or_result |-> NoType, and_result |-> NoType, xor_result |-> NoType]

-----------------------------------------------------------------------------
(* safe_base: validation, construction, assignment *)

\* validate without the comparison against Min
validate_upper_only(X, v) == ~less_than(X.Max, v)

\* safe_base<Stored, Min, Max, P, E>::validate(const T & t)
validate(X, v) ==
    /\ ~less_than(X.Max, v)
    /\ ~less_than(v, X.Min)

\* the assertion requiring only that the source is not entirely below
static_assert_not_below(Src, Dst) ==
    interval_less(interval(Src), interval(Dst)) # "true"

\* static_assert(indeterminate(t_interval < this_interval), ...)
static_assert_overlap(Src, Dst) ==
    indeterminate(interval_less(interval(Src), interval(Dst)))

\* if(! this_interval.includes(t_interval)) if(! validate(t.m_t)) E::range_error
conversion_faults(Src, Dst, v) ==
    /\ ~includes(interval(Dst), interval(Src))
    /\ ~validate(Dst, v)

\* whether a hook of exception policy e returns to its caller
hook_returns(e) == e = "ignore_exception"

\* the body shared by the converting constructor and operator=
convert(name, v) ==
    IF ~static_assert_overlap(T, This)
    THEN /\ call' = [NoCall EXCEPT !.op = name, !.outcome = "ill_formed"]
         /\ UNCHANGED <<constructed, m_t>>
    ELSE LET bad == conversion_faults(T, This, v)
             thrown == bad /\ ~hook_returns(This.E)
         IN  /\ call' = [NoCall EXCEPT
                            !.op = name, !.t = v, !.old_m_t = m_t,
                            !.path = IF includes(interval(This), interval(T))
                                     THEN "static" ELSE "checked",
                            !.hooks = IF bad THEN <<"range_error">> ELSE <<>>,
                            !.outcome = IF thrown THEN "thrown" ELSE "returned",
                            !.value = IF thrown THEN 0
                                      ELSE static_cast(This.base, v)]
             /\ m_t' = IF thrown THEN m_t ELSE static_cast(This.base, v)
             /\ constructed' = (constructed \/ ~thrown)

\* safe_base(const safe_base<T, MinT, MaxT, PT, ET> & t)
safe_base_ctor ==
    /\ ~constructed
    /\ call.outcome # "ill_formed"
    /\ \E v \in T.Min..T.Max : convert("construct", v)
    /\ UNCHANGED <<T, U, This, R, cp, promotion>>

\* operator=(const safe_base<T, MinT, MaxT, PT, ET> & rhs)
operator_assign ==
    /\ constructed
    /\ call.outcome # "ill_formed"
    /\ \E v \in T.Min..T.Max : convert("assign", v)
    /\ UNCHANGED <<T, U, This, R, cp, promotion>>

NoPolicies == [accepted |-> FALSE, promotion_policy |-> "void",
               exception_policy |-> "void"]

InitConv ==
    /\ T \in SafeTypes({"native"}, {"throw_exception"})
    /\ This \in SafeTypes({"native"}, {"throw_exception", "ignore_exception"})
    /\ U = NoType
    /\ R = "int"
    /\ constructed = FALSE
    /\ m_t = This.Min
    /\ call = NoCall
    /\ cp = <<NoPolicies, NoPolicies>>
    /\ promotion = NoPromotion

NextConv == safe_base_ctor \/ operator_assign

SpecConv == InitConv /\ [][NextConv]_vars

-----------------------------------------------------------------------------
(* Policy composition *)

\* common_policies with the exception policy assertion left out
common_policies_promotion_only(X, Y) ==
    LET safe_type == IF is_safe(X) THEN X ELSE Y
    IN  [accepted |->
            /\ (is_safe(X) \/ is_safe(Y))
            /\ \/ get_promotion_policy(X) = get_promotion_policy(Y)
               \/ get_promotion_policy(X) = "void"
               \/ "void" = get_promotion_policy(Y),
         promotion_policy |-> get_promotion_policy(safe_type),
         exception_policy |-> get_exception_policy(safe_type)]

\* template<class T, class U> struct common_policies
common_policies(X, Y) ==
    LET \* the first operand that is a safe type (void when neither is)
        safe_type == IF is_safe(X) THEN X ELSE Y
    IN  [accepted |->
            \* "at least one type must be a safe type"
            /\ (is_safe(X) \/ is_safe(Y))
            \* "if the promotion policies are different, one must be void!"
            /\ \/ get_promotion_policy(X) = get_promotion_policy(Y)
               \/ get_promotion_policy(X) = "void"
               \/ "void" = get_promotion_policy(Y)
            \* "if the exception policies are different, one must be void!"
            /\ \/ get_exception_policy(X) = get_exception_policy(Y)
               \/ get_exception_policy(X) = "void"
               \/ "void" = get_exception_policy(Y)
            \* is_safe<safe_type>::value
            /\ is_safe(safe_type),
         promotion_policy |-> get_promotion_policy(safe_type),
         exception_policy |-> get_exception_policy(safe_type)]

\* the instantiations common_policies<T, U> and common_policies<U, T>
instantiate_common_policies ==
    /\ call.op = "none"
    /\ cp' = <<common_policies(T, U), common_policies(U, T)>>
    /\ call' = [NoCall EXCEPT !.op = "common_policies"]
    /\ UNCHANGED <<T, U, This, R, constructed, m_t, promotion>>

\* operand types of the composition: native, or bounded with any policies
PolicyOperands ==
    NativeTypes \cup
    {safe_base(b, lowest(b), highest(b), p, e) :
        b \in BaseTypes, p \in PromotionPolicies, e \in ExceptionPolicies}

InitPolicies ==
    /\ T \in PolicyOperands
    /\ U \in PolicyOperands
    /\ This = NoType
    /\ R = "int"
    /\ constructed = FALSE
    /\ m_t = 0
    /\ call = NoCall
    /\ cp = <<NoPolicies, NoPolicies>>
    /\ promotion = NoPromotion

NextPolicies == instantiate_common_policies

SpecPolicies == InitPolicies /\ [][NextPolicies]_vars

-----------------------------------------------------------------------------
(* checked_result<R> *)

\* checked_result(const R & r)
success(r) == [m_e |-> "success", m_r |-> r]

\* checked_result(safe_numerics_error e, const char * msg): the union holds
\* the message, there is no value
failure(e) == [m_e |-> e, m_r |-> 0]

\* checked_result::exception()
exception(r) == r.m_e # "success"

\* checked_result::no_exception()
no_exception(r) == r.m_e = "success"

\* the hook checked_result::dispatch<E>() routes a fault kind to
hook_of(e) ==
    CASE e \in {"positive_overflow", "negative_overflow"} -> "overflow_error"
      [] e = "underflow" -> "underflow_error"
      [] e = "range_error" -> "range_error"
      [] e = "domain_error" -> "domain_error"
      [] e = "divide_by_zero" -> "arithmetic_error"
      [] OTHER -> "implementation_defined_error"

\* r.dispatch<E>() followed by static_cast<result_base_type>(r): the calls
\* that can result from call c (with the checked result r recorded in it).
\* operator R() on a result holding a fault fails its assert; without the
\* assert it reads the value member of the union while the message is
\* stored, which yields an arbitrary value of the base type rb.
dispatch_and_extract(c, r, E, rb) ==
    LET d == [c EXCEPT !.path = "checked", !.fault = r.m_e,
                       !.hooks = IF exception(r) THEN <<hook_of(r.m_e)>> ELSE <<>>]
    IN  IF ~exception(r)
        THEN {[d EXCEPT !.outcome = "returned", !.value = static_cast(rb, r.m_r)]}
        ELSE IF ~hook_returns(E)
        THEN {[d EXCEPT !.outcome = "thrown"]}
        ELSE {[d EXCEPT !.outcome = "aborted", !.value_read_on_fault = TRUE]}
             \cup
             {[d EXCEPT !.outcome = "returned", !.value_read_on_fault = TRUE,
                        !.value = x] : x \in Values(rb)}

-----------------------------------------------------------------------------
(* checked primitives and interval arithmetic (checked.hpp, interval.hpp) *)

\* the exact result if it fits rb, else the overflow fault
checked_fit(rb, exact) ==
    IF exact > highest(rb) THEN failure("positive_overflow")
    ELSE IF exact < lowest(rb) THEN failure("negative_overflow")
    ELSE success(exact)

\* the exact integer result of t op u for op in + - *
exact_result(op, t, u) ==
    CASE op = "+" -> t + u
      [] op = "-" -> t - u
      [] op = "*" -> t * u

\* checked::add<R>, checked::subtract<R>, checked::multiply<R>
checked_arith(op, rb, t, u) == checked_fit(rb, exact_result(op, t, u))

SetMin(S) == CHOOSE x \in S : \A y \in S : x <= y
SetMax(S) == CHOOSE x \in S : \A y \in S : x >= y

\* a checked_result<interval<R>> from the checked endpoint results
interval_from(rs) ==
    IF \E r \in rs : exception(r)
    THEN [m_e |-> (CHOOSE r \in rs : exception(r)).m_e, m_r |-> [l |-> 0, u |-> 0]]
    ELSE success([l |-> SetMin({r.m_r : r \in rs}), u |-> SetMax({r.m_r : r \in rs})])

\* add<R>(t_interval, u_interval), subtract<R>(...), multiply<R>(...)
interval_arith(op, rb, ti, ui) ==
    CASE op = "+" ->
            interval_from({checked_arith(op, rb, ti.l, ui.l),
                           checked_arith(op, rb, ti.u, ui.u)})
      [] op = "-" ->
            interval_from({checked_arith(op, rb, ti.l, ui.u),
                           checked_arith(op, rb, ti.u, ui.l)})
      [] op = "*" ->
            interval_from({checked_arith(op, rb, a, b) :
                           a \in {ti.l, ti.u}, b \in {ui.l, ui.u}})

-----------------------------------------------------------------------------
(* native operations of the language on two values of base type rb *)

\* the results a native operation with exact result `exact` can produce:
\* unsigned arithmetic is modular, signed overflow is undefined
native_results(rb, exact) ==
    IF exact \in Values(rb) THEN {[v |-> exact, ub |-> "none"]}
    ELSE IF ~is_signed(rb) THEN {[v |-> static_cast(rb, exact), ub |-> "none"]}
    ELSE {[v |-> x, ub |-> "signed_overflow"] : x \in Values(rb)}

-----------------------------------------------------------------------------
(* operator+, operator-, operator* *)

\* the exception policy the operators dispatch to
exception_policy == common_policies(T, U).exception_policy

\* if(r_interval.no_exception())
arith_fast_path(op) ==
    no_exception(interval_arith(op, R, interval(T), interval(U)))

\* the body of operator+, operator-, operator* on base values t and u
arith_calls(op, t, u) ==
    LET c == [NoCall EXCEPT !.op = op, !.t = t, !.u = u]
    IN  IF arith_fast_path(op)
        THEN {[c EXCEPT !.path = "fast", !.outcome = "returned",
                        !.value = n.v, !.native_ub = n.ub] :
                n \in native_results(R,
                        exact_result(op, static_cast(R, t), static_cast(R, u)))}
        ELSE dispatch_and_extract(c, checked_arith(op, R, t, u),
                                  exception_policy, R)

\* operator+(const T & t, const U & u)
operator_plus ==
    /\ call.op = "none"
    /\ \E t \in T.Min..T.Max, u \in U.Min..U.Max : call' \in arith_calls("+", t, u)
    /\ UNCHANGED <<T, U, This, R, constructed, m_t, cp, promotion>>

\* operator-(const T & t, const U & u)
operator_minus ==
    /\ call.op = "none"
    /\ \E t \in T.Min..T.Max, u \in U.Min..U.Max : call' \in arith_calls("-", t, u)
    /\ UNCHANGED <<T, U, This, R, constructed, m_t, cp, promotion>>

\* operator*(const T & t, const U & u)
operator_multiply ==
    /\ call.op = "none"
    /\ \E t \in T.Min..T.Max, u \in U.Min..U.Max : call' \in arith_calls("*", t, u)
    /\ UNCHANGED <<T, U, This, R, constructed, m_t, cp, promotion>>

\* checked::cast<R>(m_t)
checked_cast(rb, v) == checked_fit(rb, v)

\* the body of safe_base::operator R(): range_error(r) converts r to its
\* message, then static_cast<R>(r) reads the value
cast_calls(t) ==
    LET r == checked_cast(R, t)
        c == [NoCall EXCEPT !.op = "cast", !.t = t, !.path = "checked",
                            !.fault = r.m_e,
                            !.hooks = IF ~no_exception(r) THEN <<"range_error">>
                                      ELSE <<>>]
    IN  IF no_exception(r)
        THEN {[c EXCEPT !.outcome = "returned", !.value = r.m_r]}
        ELSE IF ~hook_returns(get_exception_policy(T))
        THEN {[c EXCEPT !.outcome = "thrown"]}
        ELSE {[c EXCEPT !.outcome = "aborted", !.value_read_on_fault = TRUE]}
             \cup
             {[c EXCEPT !.outcome = "returned", !.value_read_on_fault = TRUE,
                        !.value = x] : x \in Values(R)}

\* safe_base::operator R() const, on a bounded left operand holding t
operator_R ==
    /\ call.op = "none"
    /\ is_safe(T)
    /\ \E t \in T.Min..T.Max :
          call' \in cast_calls(t)
    /\ UNCHANGED <<T, U, This, R, constructed, m_t, cp, promotion>>

\* operand types of a binary operator: bounded or native, composable
OperandPairs ==
    LET Operands == SafeTypes({"native"}, {"throw_exception", "ignore_exception"})
                    \cup NativeTypes
    IN  {p \in Operands \X Operands : common_policies(p[1], p[2]).accepted}

InitOperators ==
    /\ \E p \in OperandPairs : T = p[1] /\ U = p[2]
    /\ R \in BaseTypes
    /\ This = NoType
    /\ constructed = FALSE
    /\ m_t = 0
    /\ call = NoCall
    /\ cp = <<NoPolicies, NoPolicies>>
    /\ promotion = NoPromotion

NextArith == operator_plus \/ operator_minus \/ operator_multiply \/ operator_R

SpecArith == InitOperators /\ [][NextArith]_vars

-----------------------------------------------------------------------------
(* operator/ and operator% *)

Abs(x) == IF x < 0 THEN -x ELSE x

\* integer division and remainder of the language: truncation towards zero
TruncDiv(a, b) ==
    IF (a < 0) = (b < 0) THEN Abs(a) \div Abs(b) ELSE -(Abs(a) \div Abs(b))
TruncRem(a, b) == a - b * TruncDiv(a, b)

\* checked::divide<R> / promotion_policy::divide<R>
checked_divide(rb, t, u) ==
    IF u = 0 THEN failure("divide_by_zero")
    ELSE checked_fit(rb, TruncDiv(t, u))

\* checked::modulus<R> / promotion_policy::modulus<R>
checked_modulus(rb, t, u) ==
    IF u = 0 THEN failure("divide_by_zero")
    ELSE IF is_signed(rb) /\ t = lowest(rb) /\ u = -1
    THEN failure("positive_overflow")
    ELSE checked_fit(rb, TruncRem(t, u))

\* divide<R>(t_interval, u_interval)
interval_divide(rb, ti, ui) ==
    IF ui.l <= 0 /\ 0 <= ui.u
    THEN [m_e |-> "divide_by_zero", m_r |-> [l |-> 0, u |-> 0]]
    ELSE interval_from({checked_divide(rb, a, b) :
                        a \in {ti.l, ti.u}, b \in {ui.l, ui.u}})

\* native a / b and a % b on two values of base type rb
native_divide(rb, a, b) ==
    IF b = 0 THEN {[v |-> x, ub |-> "divide_by_zero"] : x \in Values(rb)}
    ELSE native_results(rb, TruncDiv(a, b))

native_modulus(rb, a, b) ==
    IF b = 0 THEN {[v |-> x, ub |-> "divide_by_zero"] : x \in Values(rb)}
    ELSE IF TruncDiv(a, b) \notin Values(rb)
    THEN {[v |-> x, ub |-> "signed_overflow"] : x \in Values(rb)}
    ELSE {[v |-> TruncRem(a, b), ub |-> "none"]}

\* the type of a native binary expression on operands of bases a and b
\* (usual arithmetic conversions between int and unsigned)
common_type(a, b) == IF a = "unsigned" \/ b = "unsigned" THEN "unsigned" ELSE "int"

\* result_type(v): construction of the result type, whose range is the whole
\* of its base type rb, from a native value v; validation failure calls
\* range_error on the composed exception policy
wrap_in_result(c, v, E, rb) ==
    IF validate(native(rb), v)
    THEN [c EXCEPT !.outcome = "returned", !.value = v]
    ELSE IF ~hook_returns(E)
    THEN [c EXCEPT !.outcome = "thrown", !.hooks = Append(@, "range_error")]
    ELSE [c EXCEPT !.outcome = "returned", !.hooks = Append(@, "range_error"),
                   !.value = static_cast(rb, v)]

\* the fast path test of operator/ without the interval analysis
divide_fast_path_unproved(r_interval, u_interval) ==
    u_interval.l <= 0 /\ u_interval.u >= 0

\* if(r_interval.no_exception() && (u_interval.l <= 0 && u_interval.u >=0 ))
divide_fast_path(r_interval, u_interval) ==
    /\ no_exception(r_interval)
    /\ (u_interval.l <= 0 /\ u_interval.u >= 0)

\* the body of operator/ on base values t and u
divide_calls(t, u) ==
    LET c == [NoCall EXCEPT !.op = "/", !.t = t, !.u = u]
    IN  IF divide_fast_path(interval_divide(R, interval(T), interval(U)),
                            interval(U))
        THEN {[c EXCEPT !.path = "fast", !.outcome = "returned",
                        !.value = n.v, !.native_ub = n.ub] :
                n \in native_divide(R, static_cast(R, t), static_cast(R, u))}
        ELSE dispatch_and_extract(c, checked_divide(R, t, u),
                                  exception_policy, R)

\* operator/(const T & t, const U & u)
operator_divide ==
    /\ call.op = "none"
    /\ \E t \in T.Min..T.Max, u \in U.Min..U.Max : call' \in divide_calls(t, u)
    /\ UNCHANGED <<T, U, This, R, constructed, m_t, cp, promotion>>

\* if(u_interval.l > 0 || 0 > u_interval.u)
modulus_fast_path(u_interval) == u_interval.l > 0 \/ 0 > u_interval.u

\* the body of operator% on base values t and u
modulus_calls(t, u) ==
    LET c == [NoCall EXCEPT !.op = "%", !.t = t, !.u = u]
        \* decltype(base_value(t) % base_value(u))
        t_type == common_type(base_type(T), base_type(U))
    IN  IF modulus_fast_path(interval(U))
        THEN {wrap_in_result([c EXCEPT !.path = "fast", !.native_ub = n.ub],
                             n.v, exception_policy, R) :
                n \in native_modulus(t_type, static_cast(t_type, t),
                                     static_cast(t_type, u))}
        ELSE dispatch_and_extract(c, checked_modulus(t_type, t, u),
                                  exception_policy, R)

\* operator%(const T & t, const U & u)
operator_modulus ==
    /\ call.op = "none"
    /\ \E t \in T.Min..T.Max, u \in U.Min..U.Max : call' \in modulus_calls(t, u)
    /\ UNCHANGED <<T, U, This, R, constructed, m_t, cp, promotion>>

NextDiv == operator_divide \/ operator_modulus

SpecDiv == InitOperators /\ [][NextDiv]_vars

-----------------------------------------------------------------------------
(* comparison *)

\* the body of operator< on base values lhs and rhs
less_call(lhs, rhs) ==
    LET r == interval_less(interval(T), interval(U))
    IN  [NoCall EXCEPT
            !.op = "<", !.t = lhs, !.u = rhs, !.outcome = "returned",
            !.path = IF ~indeterminate(r) THEN "static" ELSE "checked",
            !.truth = IF ~indeterminate(r) THEN FALSE ELSE less_than(lhs, rhs)]

\* operator<(const T & lhs, const U & rhs)
operator_less ==
    /\ call.op = "none"
    /\ \E lhs \in T.Min..T.Max, rhs \in U.Min..U.Max : call' = less_call(lhs, rhs)
    /\ UNCHANGED <<T, U, This, R, constructed, m_t, cp, promotion>>

\* the body of operator> on base values lhs and rhs
greater_call(lhs, rhs) ==
    LET r == interval_greater(interval(T), interval(U))
    IN  [NoCall EXCEPT
            !.op = ">", !.t = lhs, !.u = rhs, !.outcome = "returned",
            !.path = IF ~indeterminate(r) THEN "static" ELSE "checked",
            !.truth = IF ~indeterminate(r) THEN FALSE ELSE greater_than(lhs, rhs)]

\* operator>(const T & lhs, const U & rhs)
operator_greater ==
    /\ call.op = "none"
    /\ \E lhs \in T.Min..T.Max, rhs \in U.Min..U.Max : call' = greater_call(lhs, rhs)
    /\ UNCHANGED <<T, U, This, R, constructed, m_t, cp, promotion>>

\* the value of x < y where x is of operand type X and y of operand type Y
less(X, Y, x, y) ==
    IF ~indeterminate(interval_less(interval(X), interval(Y))) THEN FALSE
    ELSE less_than(x, y)

\* the value of x > y where x is of operand type X and y of operand type Y
greater(X, Y, x, y) ==
    IF ~indeterminate(interval_greater(interval(X), interval(Y))) THEN FALSE
    ELSE greater_than(x, y)

\* operator>=(const T & lhs, const U & rhs): ! ( rhs < lhs )
operator_greater_equal ==
    /\ call.op = "none"
    /\ \E lhs \in T.Min..T.Max, rhs \in U.Min..U.Max :
          call' = [NoCall EXCEPT
                      !.op = ">=", !.t = lhs, !.u = rhs, !.outcome = "returned",
                      !.truth = ~less(U, T, rhs, lhs)]
    /\ UNCHANGED <<T, U, This, R, constructed, m_t, cp, promotion>>

\* operator<=(const T & lhs, const U & rhs): ! ( rhs > lhs )
operator_less_equal ==
    /\ call.op = "none"
    /\ \E lhs \in T.Min..T.Max, rhs \in U.Min..U.Max :
          call' = [NoCall EXCEPT
                      !.op = "<=", !.t = lhs, !.u = rhs, !.outcome = "returned",
                      !.truth = ~greater(U, T, rhs, lhs)]
    /\ UNCHANGED <<T, U, This, R, constructed, m_t, cp, promotion>>

InitCompare ==
    /\ \E p \in OperandPairs :
          /\ T = p[1] /\ U = p[2]
          /\ common_policies(T, U).exception_policy = "throw_exception"
    /\ R = "int"
    /\ This = NoType
    /\ constructed = FALSE
    /\ m_t = 0
    /\ call = NoCall
    /\ cp = <<NoPolicies, NoPolicies>>
    /\ promotion = NoPromotion

NextCompare ==
    \/ operator_less
    \/ operator_greater
    \/ operator_greater_equal
    \/ operator_less_equal

SpecCompare == InitCompare /\ [][NextCompare]_vars

-----------------------------------------------------------------------------
(* shift operators *)

\* checked::left_shift<R>
checked_left_shift(rb, t, u) ==
    IF u < 0 \/ u >= IntBits \/ t < 0 THEN failure("domain_error")
    ELSE checked_fit(rb, t * Pow2(u))

\* checked::right_shift<R>
checked_right_shift(rb, t, u) ==
    IF u < 0 \/ u >= IntBits \/ t < 0 THEN failure("domain_error")
    ELSE checked_fit(rb, t \div Pow2(u))

\* left_shift<R>(t_interval, u_interval), right_shift<R>(t_interval, u_interval)
interval_shift(op, rb, ti, ui) ==
    IF ui.l < 0 \/ ui.u >= IntBits \/ ti.l < 0
    THEN [m_e |-> "domain_error", m_r |-> [l |-> 0, u |-> 0]]
    ELSE IF op = "<<"
    THEN interval_from({checked_left_shift(rb, ti.l, ui.l),
                        checked_left_shift(rb, ti.u, ui.u)})
    ELSE interval_from({checked_right_shift(rb, ti.l, ui.u),
                        checked_right_shift(rb, ti.u, ui.l)})

\* a shift that never consults the interval analysis
shift_fast_path_always(op) == TRUE

\* if(r_interval.no_exception())
shift_fast_path(op) ==
    no_exception(interval_shift(op, R, interval(T), interval(U)))

\* the body of operator<< / operator>> on operands with base values t and u.
\* The fast path evaluates t << u (t >> u) on the operands themselves, of
\* types T and U, which selects this operator again.
shift_calls(op, t, u) ==
    LET c == [NoCall EXCEPT !.op = op, !.t = t, !.u = u, !.depth = 1]
    IN  IF shift_fast_path(op)
        THEN {[c EXCEPT !.path = "fast", !.outcome = "recursing"]}
        ELSE dispatch_and_extract(c,
                IF op = "<<" THEN checked_left_shift(R, t, u)
                ELSE checked_right_shift(R, t, u),
                exception_policy, R)

\* operator<<(const T & t, const U & u): a call, or the nested call its fast
\* path makes on the same operands
operator_left_shift ==
    /\ IF call.op = "none"
       THEN \E t \in T.Min..T.Max, u \in U.Min..U.Max :
                call' \in shift_calls("<<", t, u)
       ELSE /\ call.op = "<<"
            /\ call.outcome = "recursing"
            /\ call.depth < MaxDepth
            /\ call' = [call EXCEPT !.depth = @ + 1]
    /\ UNCHANGED <<T, U, This, R, constructed, m_t, cp, promotion>>

\* operator>>(const T & t, const U & u)
operator_right_shift ==
    /\ IF call.op = "none"
       THEN \E t \in T.Min..T.Max, u \in U.Min..U.Max :
                call' \in shift_calls(">>", t, u)
       ELSE /\ call.op = ">>"
            /\ call.outcome = "recursing"
            /\ call.depth < MaxDepth
            /\ call' = [call EXCEPT !.depth = @ + 1]
    /\ UNCHANGED <<T, U, This, R, constructed, m_t, cp, promotion>>

NextShift == operator_left_shift \/ operator_right_shift

SpecShift == InitOperators /\ [][NextShift]_vars

-----------------------------------------------------------------------------
(* bitwise operators *)

RECURSIVE BitOp(_, _, _, _)
\* the bitwise combination of the low n bits of a and b
BitOp(op, a, b, n) ==
    IF n = 0 THEN 0
    ELSE LET x == a % 2
             y == b % 2
             bit == CASE op = "|" -> IF x + y > 0 THEN 1 ELSE 0
                      [] op = "&" -> x * y
                      [] op = "^" -> (x + y) % 2
         IN  bit + 2 * BitOp(op, a \div 2, b \div 2, n - 1)

\* checked::bitwise_or<R>, checked::bitwise_and<R>, checked::bitwise_xor<R>
checked_bitwise(op, rb, t, u) == checked_fit(rb, BitOp(op, t, u, IntBits))

\* upper bounds of the result types a selector of the promotion policy yields
SelectorBounds == {Pow2(k) - 1 : k \in (IntBits - 2)..IntBits}

\* the result types a selector may yield for op on operand types X and Y:
\* unsigned bounded types whose range bounds every outcome of op
SelectorTypes(op, X, Y) ==
    {safe_base("unsigned", 0, hi, common_policies(X, Y).promotion_policy,
               common_policies(X, Y).exception_policy) :
        hi \in {h \in SelectorBounds :
                  \A t \in X.Min..X.Max, u \in Y.Min..Y.Max :
                      BitOp(op, t, u, IntBits) <= h}}

\* or_result<T, U>::type: P::promotion_policy::or_result<T, U, ...>::type
or_result == promotion.or_result

\* the body of a bitwise operator whose result_type is result_type
bitwise_calls(op, result_type, t, u) ==
    LET c == [NoCall EXCEPT !.op = op, !.t = t, !.u = u,
                            !.result_type = result_type]
        result_base_type == base_type(result_type)
        \* static_cast<result_type>(v) validates v against the result range
        wrap(d) ==
            IF d.outcome # "returned" \/ validate(result_type, d.value) THEN d
            ELSE IF ~hook_returns(exception_policy)
            THEN [d EXCEPT !.outcome = "thrown", !.hooks = Append(@, "range_error")]
            ELSE [d EXCEPT !.hooks = Append(@, "range_error")]
    IN  {wrap(d) : d \in dispatch_and_extract(
                             c, checked_bitwise(op, result_base_type, t, u),
                             exception_policy, result_base_type)}

\* operator|(const T & t, const U & u): typedef or_result<T, U> or_
operator_or ==
    /\ call.op = "none"
    /\ \E t \in T.Min..T.Max, u \in U.Min..U.Max :
          call' \in bitwise_calls("|", or_result, t, u)
    /\ UNCHANGED <<T, U, This, R, constructed, m_t, cp, promotion>>

\* operator&(const T & t, const U & u): typedef or_result<T, U> and_
operator_and ==
    /\ call.op = "none"
    /\ \E t \in T.Min..T.Max, u \in U.Min..U.Max :
          call' \in bitwise_calls("&", or_result, t, u)
    /\ UNCHANGED <<T, U, This, R, constructed, m_t, cp, promotion>>

\* operator^(const T & t, const U & u): typedef or_result<T, U> xor_
operator_xor ==
    /\ call.op = "none"
    /\ \E t \in T.Min..T.Max, u \in U.Min..U.Max :
          call' \in bitwise_calls("^", or_result, t, u)
    /\ UNCHANGED <<T, U, This, R, constructed, m_t, cp, promotion>>

\* unsigned operand types and a promotion policy with its three selectors
InitBitwise ==
    /\ \E p \in OperandPairs :
          /\ T = p[1] /\ U = p[2]
          /\ ~is_signed(base_type(T)) /\ ~is_signed(base_type(U))
    /\ promotion \in [or_result  : SelectorTypes("|", T, U),
                      and_result : SelectorTypes("&", T, U),
                      xor_result : SelectorTypes("^", T, U)]
    /\ R = "unsigned"
    /\ This = NoType
    /\ constructed = FALSE
    /\ m_t = 0
    /\ call = NoCall
    /\ cp = <<NoPolicies, NoPolicies>>

NextBitwise == operator_or \/ operator_and \/ operator_xor

SpecBitwise == InitBitwise /\ [][NextBitwise]_vars

-----------------------------------------------------------------------------
(* Properties of construction and assignment *)

IsConversion == call.op \in {"construct", "assign"}

\* C1: the stored value of every constructed bounded object lies in
\* [Min, Max], after any sequence of cross-type constructions and
\* assignments, under every exception policy.
C1_StoredWithinBounds ==
    constructed => (This.Min <= m_t /\ m_t <= This.Max)

\* C6: a conversion whose destination range includes the source range invokes
\* no hook; any other conversion invokes range_error exactly when the source
\* value lies outside [Min, Max] as integers.
C6_RangeErrorIffOutside ==
    (IsConversion /\ call.outcome # "ill_formed") =>
        IF \A x \in T.Min..T.Max : x \in This.Min..This.Max
        THEN call.hooks = <<>> /\ call.path = "static"
        ELSE (call.hooks = <<"range_error">>) <=> (call.t \notin This.Min..This.Max)

C6_Witness ==
    /\ call.op = "assign"
    /\ call.hooks = <<"range_error">>
    /\ call.outcome = "returned"
    /\ T.base # This.base
    /\ call.t < This.Min

\* C7: a conversion between bounded types is statically accepted exactly
\* when the source range and the destination range intersect.
C7_AcceptedIffIntersect ==
    IsConversion =>
        ((call.outcome # "ill_formed") <=>
            ((T.Min..T.Max) \cap (This.Min..This.Max) # {}))

C7_Witness ==
    /\ IsConversion
    /\ call.outcome = "returned"
    /\ T.Min > This.Min
    /\ T.Min = This.Max
    /\ T.Max > This.Max

-----------------------------------------------------------------------------
(* Properties of policy composition *)

\* two policies conflict when they differ and neither is the absent policy
Conflict(a, b) == a # b /\ a # "void" /\ b # "void"

\* C8: when common_policies<T, U> is accepted, common_policies<U, T> is
\* accepted and yields the same promotion and exception policies.
C8_CompositionCommutes ==
    (call.op = "common_policies" /\ cp[1].accepted) =>
        /\ cp[2].accepted
        /\ cp[2].promotion_policy = cp[1].promotion_policy
        /\ cp[2].exception_policy = cp[1].exception_policy

\* C9: common_policies<T, U> is accepted exactly when one of T, U is bounded
\* and neither the promotion policies nor the exception policies conflict.
C9_AcceptedIffNoConflict ==
    call.op = "common_policies" =>
        (cp[1].accepted <=>
            /\ (T.safe \/ U.safe)
            /\ ~Conflict(T.P, U.P)
            /\ ~Conflict(T.E, U.E))

C9_Witness ==
    /\ call.op = "common_policies"
    /\ ~cp[1].accepted
    /\ T.safe /\ U.safe
    /\ T.P = U.P
    /\ Conflict(T.E, U.E)

-----------------------------------------------------------------------------
(* Properties of operator+, operator-, operator* and the cast *)

IsArith == call.op \in {"+", "-", "*"}

\* the exact mathematical result of the last arithmetic call
Exact == exact_result(call.op, call.t, call.u)

\* C3: when the exact result of + - * lies outside the result base type on
\* the checked path, the throwing policy reports a fault and the returning
\* policy makes the operator return the wraparound of the exact result.
C3_OverflowFaultsOrWraps ==
    (IsArith /\ call.path = "checked" /\ Exact \notin Values(R)) =>
        IF exception_policy = "throw_exception"
        THEN call.outcome = "thrown" /\ Len(call.hooks) = 1
        ELSE /\ call.outcome = "returned"
             /\ Len(call.hooks) = 1
             /\ call.value = static_cast(R, Exact)

\* C4: on the fast path of + - * the returned value equals the exact
\* mathematical result for all operand values in the static intervals.
C4_FastPathExact ==
    (IsArith /\ call.path = "fast") =>
        (call.outcome = "returned" /\ call.value = Exact)

\* C10: the value of a checked_result is read only when it holds no fault
\* and its message only when it holds one.
C10_AccessorAssertsHold ==
    ~call.value_read_on_fault /\ ~call.msg_read_on_success

-----------------------------------------------------------------------------
(* Properties of division, modulus and comparison *)

\* C5: when the divisor's static interval contains 0, operator/ and
\* operator% take the checked path, execute no native division by zero, and
\* a run-time divisor of 0 delivers a fault to the exception policy.
C5_ZeroDivisorChecked ==
    (call.op \in {"/", "%"} /\ 0 \in U.Min..U.Max) =>
        /\ call.path = "checked"
        /\ call.native_ub # "divide_by_zero"
        /\ call.u = 0 => (call.fault # "success" /\ Len(call.hooks) = 1)

C5_Witness ==
    /\ call.op = "/"
    /\ call.u = 0
    /\ U.Min < 0 /\ U.Max > 0
    /\ call.fault = "divide_by_zero"
    /\ call.hooks # <<>>

\* C2: operator< returns the mathematical truth of lhs < rhs for all operand
\* values, in particular true when T's interval lies entirely below U's.
C2_LessIsMathematical ==
    call.op = "<" => (call.truth <=> (call.t < call.u))

\* C16: operator> returns the mathematical truth of lhs > rhs for all operand
\* values, in particular true when T's interval lies entirely above U's.
C16_GreaterIsMathematical ==
    call.op = ">" => (call.truth <=> (call.t > call.u))

\* C17: a >= b equals not (a < b) and the mathematical a >= b, and a <= b
\* equals not (a > b) and the mathematical a <= b.
C17_DerivedComparisonsConsistent ==
    /\ call.op = ">=" =>
            /\ call.truth <=> ~less(T, U, call.t, call.u)
            /\ call.truth <=> (call.t >= call.u)
    /\ call.op = "<=" =>
            /\ call.truth <=> ~greater(T, U, call.t, call.u)
            /\ call.truth <=> (call.t <= call.u)

-----------------------------------------------------------------------------
(* Properties of the shift operators *)

\* C11: a left shift whose amount is negative or not below the width, or
\* whose left operand is negative, takes the checked path and dispatches a
\* fault without a native shift; the unchecked path is taken only when the
\* static intervals exclude all three conditions.
C11_LeftShiftDomainFaults ==
    call.op = "<<" =>
        /\ (call.u < 0 \/ call.u >= IntBits \/ call.t < 0) =>
                /\ call.path = "checked"
                /\ call.fault # "success"
                /\ Len(call.hooks) = 1
                /\ call.native_ub = "none"
        /\ call.path = "fast" =>
                (T.Min >= 0 /\ U.Min >= 0 /\ U.Max < IntBits)

C11_Witness ==
    /\ call.op = "<<"
    /\ call.t < 0
    /\ call.u \in 0..(IntBits - 1)
    /\ call.hooks = <<"domain_error">>
    /\ call.outcome = "returned"

\* C14: every call of operator<< and operator>> terminates; on the
\* fault-free path the native shift is computed once, without entering the
\* bounded-type shift operator again on the same operands.
C14_ShiftNotReentered ==
    call.op \in {"<<", ">>"} => call.depth <= 1

-----------------------------------------------------------------------------
(* Further properties of assignment, division and modulus *)

\* C12: an assignment that fails validation leaves the stored value of the
\* destination equal to its previous value, also when the hook returns.
C12_FailedAssignKeepsValue ==
    (call.op = "assign" /\ call.hooks = <<"range_error">>) =>
        m_t = call.old_m_t

\* C13: operator/ takes the fast path exactly when the divide interval
\* analysis is fault-free and the divisor's static interval excludes zero.
C13_DivideFastPathIff ==
    call.op = "/" =>
        ((call.path = "fast") <=>
            /\ no_exception(interval_divide(R, interval(T), interval(U)))
            /\ (U.Min > 0 \/ U.Max < 0))

\* C15: on the unchecked path of operator% the result is the exact truncated
\* remainder of the operand values (where the result base type can hold it)
\* and no undefined or wrapped native operation is executed.
C15_ModulusFastPathExact ==
    (call.op = "%" /\ call.path = "fast"
        /\ TruncRem(call.t, call.u) \in Values(R)) =>
        /\ call.native_ub = "none"
        /\ call.outcome = "returned"
        /\ call.value = TruncRem(call.t, call.u)

-----------------------------------------------------------------------------
(* Properties of the exception policy dispatch *)

\* the result the checked primitive of the last + - * / << >> call reports
\* for the operand values
CheckedOutcome ==
    CASE IsArith -> checked_arith(call.op, R, call.t, call.u)
      [] call.op = "/" -> checked_divide(R, call.t, call.u)
      [] call.op = "<<" -> checked_left_shift(R, call.t, call.u)
      [] call.op = ">>" -> checked_right_shift(R, call.t, call.u)

\* the type in which operator% computes
ModulusType == common_type(base_type(T), base_type(U))

\* a modulus faults on a zero divisor and on the signed edge case MIN % -1
ModulusFaults ==
    \/ call.u = 0
    \/ is_signed(ModulusType) /\ call.t = lowest(ModulusType) /\ call.u = -1

\* the last operation faults: a converted value lies outside the destination
\* range, or the operator's exact result is a fault
OperationFaults ==
    IF IsConversion THEN call.t < This.Min \/ call.t > This.Max
    ELSE IF call.op = "%" THEN ModulusFaults
    ELSE exception(CheckedOutcome)

\* the last operation is fault-free: its exact result exists and every type
\* it passes through can hold it
FaultFree ==
    IF call.op = "%"
    THEN /\ ~ModulusFaults
         /\ TruncRem(call.t, call.u) \in Values(ModulusType) \cap Values(R)
    ELSE ~OperationFaults

\* C18: every operator call, construction and assignment invokes the
\* exception policy at most once, exactly once when the operation faults and
\* not at all when it is fault-free.
C18_HookOncePerFault ==
    (\/ IsConversion /\ call.outcome # "ill_formed"
     \/ IsArith
     \/ call.op \in {"/", "%", "<<", ">>"}) =>
        /\ Len(call.hooks) <= 1
        /\ OperationFaults => Len(call.hooks) = 1
        /\ FaultFree => Len(call.hooks) = 0

-----------------------------------------------------------------------------
(* Properties of the bitwise operators *)

\* C19: each bitwise operator takes its result type from the promotion
\* policy's selector for that operator: operator| from or_result, operator&
\* from and_result and operator^ from xor_result.
C19_SelectorPerOperator ==
    /\ call.op = "|" => call.result_type = promotion.or_result
    /\ call.op = "&" => call.result_type = promotion.and_result
    /\ call.op = "^" => call.result_type = promotion.xor_result

====
